---- MODULE Spec2Model ----
(***************************************************************************)
(* User-notification fan-out and read tracking of the EduSpace backend.    *)
(*                                                                         *)
(* The state is the relational store (users, notifications and the         *)
(* user_notifications join table) plus, for every request-handling task,   *)
(* the position of the service coroutine it runs and that coroutine's      *)
(* local variables.  Every `await db.execute(...)` / `await db.commit()`   *)
(* of app/services/user_notification_service.py is one step; tasks         *)
(* interleave between steps.  A statement that writes takes effect in the  *)
(* store at the commit that follows it; a statement that reads sees the    *)
(* rows committed when it runs (the engine of app/core/database.py sets no *)
(* isolation level, and every behaviour of a stricter one is among these). *)
(***************************************************************************)
EXTENDS Integers, FiniteSets, Sequences, TLC

\* ---------------------------------------------------------------- bounds
MaxCalls == 2          \* requests started in one behaviour

\* ------------------------------------------------------- request inputs
Procs    == {1, 2}                       \* concurrent request tasks
UserIds  == {1, 2}                       \* users.id values
NotifIds == {1, 2}                       \* notifications.id values

\* app/models/user.py UserRole
UserRole == {"admin", "teacher", "student", "parent", "student_parent"}

\* users.role of the accounts of the directory
RoleOf == [u \in UserIds |-> IF u = 1 THEN "teacher" ELSE "student"]

\* app/models/notification.py NotificationType
NotificationType == {"general", "announcement", "assignment", "event", "payment"}

\* notifications.type of the notifications of the directory
TypeOf == [n \in NotifIds |-> IF n = 1 THEN "general" ELSE "assignment"]

\* role lists a request may carry (every entry passes validate_roles)
RoleSets == {{"teacher"}, {"teacher", "student"}, {"parent"}}

UserIdSets  == SUBSET UserIds \ {{}}
NotifIdSets == SUBSET NotifIds \ {{}}

NoTime == 0                              \* read_at IS NULL

VARIABLES
  users,               \* ids of the rows of table users
  notifications,       \* ids of the rows of table notifications
  user_notifications,  \* rows of table user_notifications
  next_id,             \* AUTO_INCREMENT of user_notifications.id
  clock,               \* last value returned by datetime.utcnow()
  ncalls,              \* requests started so far
  call                 \* per task: coroutine position and locals

vars == <<users, notifications, user_notifications, next_id, clock, ncalls, call>>

\* ------------------------------------------------------------ the store
\* A row that is created already read.
UserNotification_CreatedRead(id, user_id, notification_id) ==
  [id |-> id, user_id |-> user_id, notification_id |-> notification_id,
   is_read |-> TRUE, read_at |-> NoTime]

\* A row of user_notifications as created by UserNotification(user_id=..,
\* notification_id=..): is_read defaults to False, read_at to NULL.
UserNotification(id, user_id, notification_id) ==
  [id |-> id, user_id |-> user_id, notification_id |-> notification_id,
   is_read |-> FALSE, read_at |-> NoTime]

Pair(r) == <<r.user_id, r.notification_id>>

Pairs(rows) == {Pair(r) : r \in rows}

RowsOf(rows, u, n) == {r \in rows : r.user_id = u /\ r.notification_id = n}

\* A table without the unique constraint.
UniqueViolation_Off(rows, pr) == FALSE

\* UniqueConstraint('user_id', 'notification_id'): the INSERT of pr is
\* rejected when a committed row already holds the pair.
UniqueViolation(rows, pr) == pr \in Pairs(rows)

\* Foreign keys the store does not enforce.
ForeignKeyViolation_Off(pr) == FALSE

\* ForeignKey("users.id"), ForeignKey("notifications.id"): the INSERT of pr
\* is rejected when a parent row is gone.
ForeignKeyViolation(pr) == pr[1] \notin users \/ pr[2] \notin notifications

\* The pairs of a pending set in the order the session flushes them
\* (users ascending, then notifications ascending).
MinPair(S) ==
  CHOOSE x \in S : \A y \in S : x[1] < y[1] \/ (x[1] = y[1] /\ x[2] <= y[2])

RECURSIVE FlushOrder(_)
FlushOrder(S) ==
  IF S = {} THEN << >>
  ELSE LET m == MinPair(S) IN <<m>> \o FlushOrder(S \ {m})

\* The rows a flush of the pending pairs creates, ids from AUTO_INCREMENT.
NewRows(pending, first_id) ==
  LET ord == FlushOrder(pending) IN
  {UserNotification(first_id + i - 1, ord[i][1], ord[i][2]) : i \in 1..Len(ord)}

\* ------------------------------------------------------------ the tasks
IdleCall ==
  [pc |-> "idle", op |-> "none",
   notification_ids |-> {}, user_ids |-> {}, roles |-> {}, user_id |-> 0,
   existing_pairs |-> {}, pending |-> {}, skipped_count |-> 0,
   assignments |-> {}, unread_ids |-> {}, total_count |-> 0, now |-> NoTime,
   status |-> "none", detail_notification_ids |-> {}, detail_user_ids |-> {},
   count |-> 0, unread_count |-> 0, read_count |-> 0, unread_by_type |-> {},
   latest_unread |-> 0, solo |-> TRUE]

\* No response is waiting to be sent: a finished call returns to its
\* controller before any other task runs.
Quiet == \A q \in Procs : call[q].pc # "done"

\* A new request is served by the first task that has none.
Free(p) ==
  /\ Quiet
  /\ call[p].pc = "idle"
  /\ \A q \in Procs : q < p => call[q].pc # "idle"

InFlight(p) == call[p].pc \notin {"idle", "done"}

\* Task p is at position pc of operation op.
At(p, op, pc) == Quiet /\ call[p].op = op /\ call[p].pc = pc

\* Task q moves to record rec without touching the store.
Local(q, rec) == [call EXCEPT ![q] = rec]

\* Task q moves to record rec in a step that reads or writes the store:
\* every other task that is in the middle of a call has been interleaved.
Step(q, rec) ==
  [p \in Procs |->
     IF p = q THEN rec
     ELSE IF InFlight(p) THEN [call[p] EXCEPT !.solo = FALSE]
     ELSE call[p]]

Begin(op, N, U, R, u) ==
  [IdleCall EXCEPT !.op = op, !.notification_ids = N, !.user_ids = U,
                   !.roles = R, !.user_id = u]

\* raise HTTPException(status_code=404, detail=...)
NotFound(c, detail_n, detail_u) ==
  [c EXCEPT !.pc = "done", !.status = "NotFound",
            !.detail_notification_ids = detail_n, !.detail_user_ids = detail_u]

\* The store as earlier requests left it.  Each table below is what the
\* operations of this module produce from the empty one:
\*   SeedEmpty    nothing assigned yet;
\*   SeedRead     notification 1 then 2 assigned to user 1, who read the
\*                first at time 1;
\*   SeedDeleted  user 2 and notification 2 deleted again.
SeedEmpty ==
  [users |-> UserIds, notifications |-> NotifIds, rows |-> {},
   next_id |-> 1, clock |-> 0]

SeedRead ==
  [users |-> UserIds, notifications |-> NotifIds,
   rows |-> {[UserNotification(1, 1, 1) EXCEPT !.is_read = TRUE, !.read_at = 1],
             UserNotification(2, 1, 2)},
   next_id |-> 3, clock |-> 1]

SeedDeleted ==
  [users |-> {1}, notifications |-> {1}, rows |-> {},
   next_id |-> 1, clock |-> 0]

Seeds == {SeedEmpty, SeedRead, SeedDeleted}

Init ==
  \E s \in Seeds :
    /\ users = s.users
    /\ notifications = s.notifications
    /\ user_notifications = s.rows
    /\ next_id = s.next_id
    /\ clock = s.clock
    /\ ncalls = 0
    /\ call = [p \in Procs |-> IdleCall]

\* The service coroutine returned (or raised) and the controller answered.
Return(p) ==
  /\ call[p].pc = "done"
  /\ call' = [call EXCEPT ![p] = IdleCall]
  /\ UNCHANGED <<users, notifications, user_notifications, next_id, clock, ncalls>>

\* ---------------------------------------------- assign_notification_to_users
StartAssign(p, n, U) ==
  /\ Free(p) /\ ncalls < MaxCalls
  /\ ncalls' = ncalls + 1
  /\ call' = Local(p, [Begin("assign", {n}, U, {}, 0) EXCEPT !.pc = "check_notification"])
  /\ UNCHANGED <<users, notifications, user_notifications, next_id, clock>>

\* select(Notification).where(id == notification_id); 404 when absent
AssignCheckNotification(p) ==
  LET c == call[p] IN
  /\ At(p, "assign", "check_notification")
  /\ call' = Step(p, IF c.notification_ids \subseteq notifications
                     THEN [c EXCEPT !.pc = "check_users"]
                     ELSE NotFound(c, {}, {}))
  /\ UNCHANGED <<users, notifications, user_notifications, next_id, clock, ncalls>>

\* The users check done row by row: the users that exist get their row
\* before the missing ones are reported.
AssignCheckUsers_Partial(p) ==
  LET c == call[p]
      missing_user_ids == c.user_ids \ users
      new == NewRows(((c.user_ids \cap users) \X c.notification_ids)
                       \ Pairs(user_notifications), next_id)
  IN
  /\ At(p, "assign", "check_users")
  /\ IF missing_user_ids = {}
     THEN /\ call' = Step(p, [c EXCEPT !.pc = "check_existing"])
          /\ UNCHANGED <<user_notifications, next_id>>
     ELSE /\ user_notifications' = user_notifications \cup new
          /\ next_id' = next_id + Cardinality(new)
          /\ call' = Step(p, NotFound(c, {}, missing_user_ids))
  /\ UNCHANGED <<users, notifications, clock, ncalls>>

\* select(User).where(id.in_(user_ids)); 404 listing the missing ids
AssignCheckUsers(p) ==
  LET c == call[p]
      missing_user_ids == c.user_ids \ users
  IN
  /\ At(p, "assign", "check_users")
  /\ call' = Step(p, IF missing_user_ids = {}
                     THEN [c EXCEPT !.pc = "check_existing"]
                     ELSE NotFound(c, {}, missing_user_ids))
  /\ UNCHANGED <<users, notifications, user_notifications, next_id, clock, ncalls>>

\* The SELECT without its user_id filter.
\* A read that also counts the pairs other calls have queued and not yet
\* committed (an application-level reservation).
AssignExisting_Reserved(rows, N, U) ==
  {r \in rows : r.notification_id \in N /\ r.user_id \in U}
    \cup {UserNotification(0, pr[1], pr[2]) :
            pr \in {x \in UNION {call[q].pending : q \in Procs} :
                      x[1] \in U /\ x[2] \in N}}

AssignExisting_AnyUser(rows, N, U) ==
  {r \in rows : r.notification_id \in N}

\* The rows the existing-assignments SELECT returns:
\* notification_id == n AND user_id IN user_ids.
AssignExisting(rows, N, U) ==
  {r \in rows : r.notification_id \in N /\ r.user_id \in U}

\* A re-assignment that makes the rows it finds unread again.
AssignCheckExisting_ResetRead(p) ==
  LET c == call[p]
      existing == AssignExisting(user_notifications, c.notification_ids, c.user_ids)
      existing_assignment_user_ids == {r.user_id : r \in existing}
      new_user_ids == c.user_ids \ existing_assignment_user_ids
  IN
  /\ At(p, "assign", "check_existing")
  /\ user_notifications' =
       {IF r \in existing
        THEN [r EXCEPT !.is_read = FALSE, !.read_at = NoTime] ELSE r
        : r \in user_notifications}
  /\ call' = Step(p, [c EXCEPT !.pc = "commit",
                               !.existing_pairs = Pairs(existing),
                               !.pending = new_user_ids \X c.notification_ids,
                               !.skipped_count = Cardinality(existing)])
  /\ UNCHANGED <<users, notifications, next_id, clock, ncalls>>

\* existing-assignments SELECT, new_user_ids, db.add of every new pair
AssignCheckExisting(p) ==
  LET c == call[p]
      existing == AssignExisting(user_notifications, c.notification_ids, c.user_ids)
      existing_assignment_user_ids == {r.user_id : r \in existing}
      new_user_ids == c.user_ids \ existing_assignment_user_ids
  IN
  /\ At(p, "assign", "check_existing")
  /\ call' = Step(p, [c EXCEPT !.pc = "commit",
                               !.existing_pairs = Pairs(existing),
                               !.pending = new_user_ids \X c.notification_ids,
                               !.skipped_count = Cardinality(existing)])
  /\ UNCHANGED <<users, notifications, user_notifications, next_id, clock, ncalls>>

\* A commit per INSERT: the rows accepted before the rejected one stay.
Commit_PerRow(p) ==
  LET c == call[p]
      bad == {pr \in c.pending : UniqueViolation(user_notifications, pr)
                                   \/ ForeignKeyViolation(pr)}
      new == NewRows(c.pending \ bad, next_id)
  IN
  /\ user_notifications' = user_notifications \cup new
  /\ next_id' = next_id + Cardinality(new)
  /\ call' = Step(p, IF bad # {}
                     THEN [c EXCEPT !.pc = "done", !.status = "DuplicateEntry"]
                     ELSE [c EXCEPT !.pc = "refresh",
                                    !.assignments = {r.id : r \in new}])

\* await db.commit(): the session flushes its pending INSERTs in one
\* transaction.  A rejected INSERT raises IntegrityError, which no caller
\* catches: the transaction is rolled back and the request ends with it.
Commit(p) ==
  LET c == call[p]
      dup == {pr \in c.pending : UniqueViolation(user_notifications, pr)}
      fk  == {pr \in c.pending : ForeignKeyViolation(pr)}
      new == NewRows(c.pending, next_id)
  IN
  IF dup # {} \/ fk # {}
  THEN /\ call' = Step(p, [c EXCEPT !.pc = "done",
                                    !.status = IF dup # {} THEN "DuplicateEntry"
                                               ELSE "ForeignKeyError"])
       /\ UNCHANGED <<user_notifications, next_id>>
  ELSE /\ user_notifications' = user_notifications \cup new
       /\ next_id' = next_id + Cardinality(c.pending)
       /\ call' = Step(p, [c EXCEPT !.pc = "refresh",
                                    !.assignments = {r.id : r \in new}])

\* await db.refresh(assignment) for every new row: InvalidRequestError when
\* a row is no longer in the table.
Refresh(p) ==
  LET c == call[p]
      present == {r.id : r \in user_notifications}
  IN
  call' = Step(p, [c EXCEPT !.pc = "done",
                            !.status = IF c.assignments \subseteq present
                                       THEN "ok" ELSE "RefreshError"])

AssignCommit(p) ==
  /\ At(p, "assign", "commit")
  /\ Commit(p)
  /\ UNCHANGED <<users, notifications, clock, ncalls>>

AssignRefresh(p) ==
  /\ At(p, "assign", "refresh")
  /\ Refresh(p)
  /\ UNCHANGED <<users, notifications, user_notifications, next_id, clock, ncalls>>

\* ---------------------------------------- bulk_assign_notifications_to_users
StartBulk(p, N, U) ==
  /\ Free(p) /\ ncalls < MaxCalls
  /\ ncalls' = ncalls + 1
  /\ call' = Local(p, [Begin("bulk", N, U, {}, 0) EXCEPT !.pc = "check_notification"])
  /\ UNCHANGED <<users, notifications, user_notifications, next_id, clock>>

\* select(Notification).where(id.in_(notification_ids)); 404 listing the
\* missing notification ids, raised before the users are looked at
BulkCheckNotifications(p) ==
  LET c == call[p]
      missing_notification_ids == c.notification_ids \ notifications
  IN
  /\ At(p, "bulk", "check_notification")
  /\ call' = Step(p, IF missing_notification_ids = {}
                     THEN [c EXCEPT !.pc = "check_users"]
                     ELSE NotFound(c, missing_notification_ids, {}))
  /\ UNCHANGED <<users, notifications, user_notifications, next_id, clock, ncalls>>

\* select(User).where(id.in_(user_ids)); 404 listing the missing user ids
BulkCheckUsers(p) ==
  LET c == call[p]
      missing_user_ids == c.user_ids \ users
  IN
  /\ At(p, "bulk", "check_users")
  /\ call' = Step(p, IF missing_user_ids = {}
                     THEN [c EXCEPT !.pc = "check_existing"]
                     ELSE NotFound(c, {}, missing_user_ids))
  /\ UNCHANGED <<users, notifications, user_notifications, next_id, clock, ncalls>>

\* The rows the batched SELECT returns:
\* notification_id IN notification_ids AND user_id IN user_ids.
\* A read that looks at the first notification of the request only.
BulkExisting_FirstNotification(rows, N, U) ==
  {r \in rows : r.user_id \in U
                  /\ r.notification_id \in N
                  /\ \A n \in N : r.notification_id <= n}

BulkExisting(rows, N, U) ==
  {r \in rows : r.notification_id \in N /\ r.user_id \in U}

\* existing_pairs, then the double loop over user_ids x notification_ids:
\* db.add for a pair not in existing_pairs, skipped_count += 1 otherwise
BulkCheckExisting(p) ==
  LET c == call[p]
      existing_pairs == Pairs(BulkExisting(user_notifications, c.notification_ids, c.user_ids))
      candidate == c.user_ids \X c.notification_ids
  IN
  /\ At(p, "bulk", "check_existing")
  /\ call' = Step(p, [c EXCEPT !.pc = "commit",
                               !.existing_pairs = existing_pairs,
                               !.pending = candidate \ existing_pairs,
                               !.skipped_count = Cardinality(candidate \cap existing_pairs)])
  /\ UNCHANGED <<users, notifications, user_notifications, next_id, clock, ncalls>>

BulkCommit(p) ==
  /\ At(p, "bulk", "commit")
  /\ Commit(p)
  /\ UNCHANGED <<users, notifications, clock, ncalls>>

BulkRefresh(p) ==
  /\ At(p, "bulk", "refresh")
  /\ Refresh(p)
  /\ UNCHANGED <<users, notifications, user_notifications, next_id, clock, ncalls>>

\* ------------------------------------------------ assign_notification_by_role
StartRole(p, n, R) ==
  /\ Free(p) /\ ncalls < MaxCalls
  /\ ncalls' = ncalls + 1
  /\ call' = Local(p, [Begin("role", {n}, {}, R, 0) EXCEPT !.pc = "check_notification"])
  /\ UNCHANGED <<users, notifications, user_notifications, next_id, clock>>

RoleCheckNotification(p) ==
  LET c == call[p] IN
  /\ At(p, "role", "check_notification")
  /\ call' = Step(p, IF c.notification_ids \subseteq notifications
                     THEN [c EXCEPT !.pc = "check_users"]
                     ELSE NotFound(c, {}, {}))
  /\ UNCHANGED <<users, notifications, user_notifications, next_id, clock, ncalls>>

\* The role filter left out of the users query.
UsersWithRoles_All(R) == users

\* select(User).where(role.in_(role_enums))
UsersWithRoles(R) == {u \in users : RoleOf[u] \in R}

\* The resolution without the `if not users` check.
RoleResolveUsers_NoCheck(p) ==
  LET c == call[p] IN
  /\ At(p, "role", "check_users")
  /\ call' = Step(p, [c EXCEPT !.pc = "check_existing",
                               !.user_ids = {u \in users : RoleOf[u] \in c.roles}])
  /\ UNCHANGED <<users, notifications, user_notifications, next_id, clock, ncalls>>

\* resolve the roles to user ids; 404 when no user holds any of them
RoleResolveUsers(p) ==
  LET c == call[p]
      user_ids == UsersWithRoles(c.roles)
  IN
  /\ At(p, "role", "check_users")
  /\ call' = Step(p, IF user_ids # {}
                     THEN [c EXCEPT !.pc = "check_existing", !.user_ids = user_ids]
                     ELSE NotFound(c, {}, {}))
  /\ UNCHANGED <<users, notifications, user_notifications, next_id, clock, ncalls>>

\* The rows the existing-assignments SELECT returns:
\* notification_id == n AND user_id IN user_ids.
RoleExisting(rows, N, U) ==
  {r \in rows : r.notification_id \in N /\ r.user_id \in U}

RoleCheckExisting(p) ==
  LET c == call[p]
      existing == RoleExisting(user_notifications, c.notification_ids, c.user_ids)
      existing_assignment_user_ids == {r.user_id : r \in existing}
      new_user_ids == c.user_ids \ existing_assignment_user_ids
  IN
  /\ At(p, "role", "check_existing")
  /\ call' = Step(p, [c EXCEPT !.pc = "commit",
                               !.existing_pairs = Pairs(existing),
                               !.pending = new_user_ids \X c.notification_ids,
                               !.skipped_count = Cardinality(existing)])
  /\ UNCHANGED <<users, notifications, user_notifications, next_id, clock, ncalls>>

RoleCommit(p) ==
  /\ At(p, "role", "commit")
  /\ Commit(p)
  /\ UNCHANGED <<users, notifications, clock, ncalls>>

RoleRefresh(p) ==
  /\ At(p, "role", "refresh")
  /\ Refresh(p)
  /\ UNCHANGED <<users, notifications, user_notifications, next_id, clock, ncalls>>

\* ------------------------------------------------- mark_notifications_as_read
\* now = datetime.utcnow()
StartMarkRead(p, u, N) ==
  /\ Free(p) /\ ncalls < MaxCalls
  /\ u \in users                        \* get_current_user
  /\ ncalls' = ncalls + 1
  /\ clock' = clock + 1
  /\ call' = Local(p, [Begin("mark_read", N, {}, {}, u) EXCEPT
                         !.pc = "read_unread", !.now = clock + 1])
  /\ UNCHANGED <<users, notifications, user_notifications, next_id>>

\* A select without the is_read == False condition.
MarkReadSelectUnread_All(p) ==
  LET c == call[p]
      unread_assignments ==
        {r \in user_notifications :
           r.user_id = c.user_id /\ r.notification_id \in c.notification_ids}
  IN
  /\ At(p, "mark_read", "read_unread")
  /\ call' = Step(p, [c EXCEPT !.pc = "read_total",
                               !.unread_ids = {r.id : r \in unread_assignments}])
  /\ UNCHANGED <<users, notifications, user_notifications, next_id, clock, ncalls>>

\* select the user's rows with notification_id IN ids AND is_read == False
MarkReadSelectUnread(p) ==
  LET c == call[p]
      unread_assignments ==
        {r \in user_notifications :
           r.user_id = c.user_id /\ r.notification_id \in c.notification_ids /\ ~r.is_read}
  IN
  /\ At(p, "mark_read", "read_unread")
  /\ call' = Step(p, [c EXCEPT !.pc = "read_total",
                               !.unread_ids = {r.id : r \in unread_assignments}])
  /\ UNCHANGED <<users, notifications, user_notifications, next_id, clock, ncalls>>

\* already_read_count taken from the length of the request's id list.
MarkReadCountTotal_ByRequest(p) ==
  LET c == call[p]
      total_count == Cardinality(c.notification_ids)
      d == [c EXCEPT !.total_count = total_count,
                     !.count = Cardinality(c.unread_ids),
                     !.skipped_count = total_count - Cardinality(c.unread_ids)]
  IN
  /\ At(p, "mark_read", "read_total")
  /\ call' = Step(p, IF c.unread_ids # {}
                     THEN [d EXCEPT !.pc = "update"]
                     ELSE [d EXCEPT !.pc = "done", !.status = "ok"])
  /\ UNCHANGED <<users, notifications, user_notifications, next_id, clock, ncalls>>

\* count the user's rows with notification_id IN ids; already_read_count =
\* total_count - len(unread_assignments); return when nothing is unread
MarkReadCountTotal(p) ==
  LET c == call[p]
      total_count ==
        Cardinality({r \in user_notifications :
                       r.user_id = c.user_id /\ r.notification_id \in c.notification_ids})
      d == [c EXCEPT !.total_count = total_count,
                     !.count = Cardinality(c.unread_ids),
                     !.skipped_count = total_count - Cardinality(c.unread_ids)]
  IN
  /\ At(p, "mark_read", "read_total")
  /\ call' = Step(p, IF c.unread_ids # {}
                     THEN [d EXCEPT !.pc = "update"]
                     ELSE [d EXCEPT !.pc = "done", !.status = "ok"])
  /\ UNCHANGED <<users, notifications, user_notifications, next_id, clock, ncalls>>

\* An update addressed by notification id, for every user.
MarkReadUpdate_ByNotification(p) ==
  LET c == call[p] IN
  /\ At(p, "mark_read", "update")
  /\ user_notifications' =
       {IF r.notification_id \in c.notification_ids /\ ~r.is_read
        THEN [r EXCEPT !.is_read = TRUE, !.read_at = c.now] ELSE r
        : r \in user_notifications}
  /\ call' = Step(p, [c EXCEPT !.pc = "done", !.status = "ok"])
  /\ UNCHANGED <<users, notifications, next_id, clock, ncalls>>

\* An update that sets is_read and leaves read_at alone.
MarkReadUpdate_NoTimestamp(p) ==
  LET c == call[p] IN
  /\ At(p, "mark_read", "update")
  /\ user_notifications' =
       {IF r.id \in c.unread_ids THEN [r EXCEPT !.is_read = TRUE] ELSE r
        : r \in user_notifications}
  /\ call' = Step(p, [c EXCEPT !.pc = "done", !.status = "ok"])
  /\ UNCHANGED <<users, notifications, next_id, clock, ncalls>>

\* update(UserNotification).where(id.in_(unread_ids))
\*   .values(is_read=True, read_at=now), then commit
MarkReadUpdate(p) ==
  LET c == call[p] IN
  /\ At(p, "mark_read", "update")
  /\ user_notifications' =
       {IF r.id \in c.unread_ids
        THEN [r EXCEPT !.is_read = TRUE, !.read_at = c.now] ELSE r
        : r \in user_notifications}
  /\ call' = Step(p, [c EXCEPT !.pc = "done", !.status = "ok"])
  /\ UNCHANGED <<users, notifications, next_id, clock, ncalls>>

\* ----------------------------------------------------------- mark_all_as_read
\* An update without the is_read == False condition.
MarkAllAsRead_AllRows(p, u) ==
  LET matched == {r \in user_notifications : r.user_id = u} IN
  /\ Free(p) /\ ncalls < MaxCalls
  /\ u \in users
  /\ ncalls' = ncalls + 1
  /\ clock' = clock + 1
  /\ user_notifications' =
       {IF r \in matched
        THEN [r EXCEPT !.is_read = TRUE, !.read_at = clock + 1] ELSE r
        : r \in user_notifications}
  /\ call' = Step(p, [Begin("mark_all", {}, {}, {}, u) EXCEPT
                        !.pc = "done", !.status = "ok", !.now = clock + 1,
                        !.count = Cardinality(matched)])
  /\ UNCHANGED <<users, notifications, next_id>>

\* update(UserNotification).where(user_id == u AND is_read == False)
\*   .values(is_read=True, read_at=now), commit, return result.rowcount
MarkAllAsRead(p, u) ==
  LET matched == {r \in user_notifications : r.user_id = u /\ ~r.is_read} IN
  /\ Free(p) /\ ncalls < MaxCalls
  /\ u \in users                        \* get_current_user
  /\ ncalls' = ncalls + 1
  /\ clock' = clock + 1
  /\ user_notifications' =
       {IF r \in matched
        THEN [r EXCEPT !.is_read = TRUE, !.read_at = clock + 1] ELSE r
        : r \in user_notifications}
  /\ call' = Step(p, [Begin("mark_all", {}, {}, {}, u) EXCEPT
                        !.pc = "done", !.status = "ok", !.now = clock + 1,
                        !.count = Cardinality(matched)])
  /\ UNCHANGED <<users, notifications, next_id>>

\* ------------------------------------------------ get_user_notification_stats
\* The user's rows, and those of them that are unread.
RowsOfUser(rows, u) == {r \in rows : r.user_id = u}

UnreadOfUser(rows, u) == {r \in rows : r.user_id = u /\ ~r.is_read}

\* select type, count(id) ... join notifications ... group by type, collected
\* by the dict comprehension: one <<type, count>> entry per type that has a
\* row in the group, none for the others.
UnreadByType(rows, u) ==
  {<<t, Cardinality({r \in UnreadOfUser(rows, u) : TypeOf[r.notification_id] = t})>> :
     t \in {TypeOf[r.notification_id] : r \in UnreadOfUser(rows, u)}}

\* order_by(Notification.created_at.desc()).limit(1): notifications are
\* created in id order; 0 stands for None.
LatestUnread(rows, u) ==
  LET ids == {r.notification_id : r \in UnreadOfUser(rows, u)} IN
  IF ids = {} THEN 0 ELSE CHOOSE n \in ids : \A m \in ids : m <= n

StartStats(p, u) ==
  /\ Free(p) /\ ncalls < MaxCalls
  /\ ncalls' = ncalls + 1
  /\ call' = Local(p, [Begin("stats", {}, {}, {}, u) EXCEPT !.pc = "count_total"])
  /\ UNCHANGED <<users, notifications, user_notifications, next_id, clock>>

\* A total taken over the whole table.
StatsCountTotal_AllUsers(p) ==
  LET c == call[p] IN
  /\ At(p, "stats", "count_total")
  /\ call' = Step(p, [c EXCEPT !.pc = "count_unread",
                               !.total_count = Cardinality(user_notifications)])
  /\ UNCHANGED <<users, notifications, user_notifications, next_id, clock, ncalls>>

\* select count(id) where user_id == u
StatsCountTotal(p) ==
  LET c == call[p] IN
  /\ At(p, "stats", "count_total")
  /\ call' = Step(p, [c EXCEPT !.pc = "count_unread",
                               !.total_count =
                                  Cardinality(RowsOfUser(user_notifications, c.user_id))])
  /\ UNCHANGED <<users, notifications, user_notifications, next_id, clock, ncalls>>

\* A read_count obtained by a count query of its own.
StatsCountUnread_CountRead(p) ==
  LET c == call[p]
      unread_count == Cardinality(UnreadOfUser(user_notifications, c.user_id))
  IN
  /\ At(p, "stats", "count_unread")
  /\ call' = Step(p, [c EXCEPT !.pc = "by_type",
                               !.unread_count = unread_count,
                               !.read_count =
                                  Cardinality(RowsOfUser(user_notifications, c.user_id))
                                    - unread_count])
  /\ UNCHANGED <<users, notifications, user_notifications, next_id, clock, ncalls>>

\* select count(id) where user_id == u AND is_read == False;
\* read_count = total_count - unread_count
StatsCountUnread(p) ==
  LET c == call[p]
      unread_count == Cardinality(UnreadOfUser(user_notifications, c.user_id))
  IN
  /\ At(p, "stats", "count_unread")
  /\ call' = Step(p, [c EXCEPT !.pc = "by_type",
                               !.unread_count = unread_count,
                               !.read_count = c.total_count - unread_count])
  /\ UNCHANGED <<users, notifications, user_notifications, next_id, clock, ncalls>>

StatsUnreadByType(p) ==
  LET c == call[p] IN
  /\ At(p, "stats", "by_type")
  /\ call' = Step(p, [c EXCEPT !.pc = "latest",
                               !.unread_by_type =
                                  UnreadByType(user_notifications, c.user_id)])
  /\ UNCHANGED <<users, notifications, user_notifications, next_id, clock, ncalls>>

StatsLatestUnread(p) ==
  LET c == call[p] IN
  /\ At(p, "stats", "latest")
  /\ call' = Step(p, [c EXCEPT !.pc = "done", !.status = "ok",
                               !.latest_unread =
                                  LatestUnread(user_notifications, c.user_id)])
  /\ UNCHANGED <<users, notifications, user_notifications, next_id, clock, ncalls>>

\* --------------------------------------------------- delete_user_notification
\* A delete without the user_id condition.
DeleteUserNotification_AnyUser(p, u, n) ==
  LET matched == {r \in user_notifications : r.notification_id = n} IN
  /\ Free(p) /\ ncalls < MaxCalls
  /\ ncalls' = ncalls + 1
  /\ user_notifications' = user_notifications \ matched
  /\ call' = Step(p, [Begin("remove", {n}, {}, {}, u) EXCEPT
                        !.pc = "done",
                        !.status = IF matched # {} THEN "ok" ELSE "NotFound",
                        !.count = Cardinality(matched)])
  /\ UNCHANGED <<users, notifications, next_id, clock>>

\* delete(UserNotification).where(user_id == u AND notification_id == n),
\* commit, return rowcount > 0; the controller answers 404 on False
DeleteUserNotification(p, u, n) ==
  LET matched == RowsOf(user_notifications, u, n) IN
  /\ Free(p) /\ ncalls < MaxCalls
  /\ ncalls' = ncalls + 1
  /\ user_notifications' = user_notifications \ matched
  /\ call' = Step(p, [Begin("remove", {n}, {}, {}, u) EXCEPT
                        !.pc = "done",
                        !.status = IF matched # {} THEN "ok" ELSE "NotFound",
                        !.count = Cardinality(matched)])
  /\ UNCHANGED <<users, notifications, next_id, clock>>

\* ---------------------------------------------- delete_all_user_notifications
DeleteAllUserNotifications(p, u) ==
  LET matched == {r \in user_notifications : r.user_id = u} IN
  /\ Free(p) /\ ncalls < MaxCalls
  /\ ncalls' = ncalls + 1
  /\ user_notifications' = user_notifications \ matched
  /\ call' = Step(p, [Begin("remove_all", {}, {}, {}, u) EXCEPT
                        !.pc = "done", !.status = "ok",
                        !.count = Cardinality(matched)])
  /\ UNCHANGED <<users, notifications, next_id, clock>>

\* ------------------------------------ NotificationService.delete_notification
\* A foreign key without ON DELETE CASCADE that the store does not enforce.
DeleteNotification_NoCascade(p, n) ==
  /\ Free(p) /\ ncalls < MaxCalls
  /\ ncalls' = ncalls + 1
  /\ notifications' = notifications \ {n}
  /\ call' = Step(p, [Begin("delete_notification", {n}, {}, {}, 0) EXCEPT
                        !.pc = "done",
                        !.status = IF n \in notifications THEN "ok" ELSE "NotFound"])
  /\ UNCHANGED <<users, user_notifications, next_id, clock>>

\* delete(Notification).where(id == n); ON DELETE CASCADE removes the
\* user_notifications rows of n
DeleteNotification(p, n) ==
  /\ Free(p) /\ ncalls < MaxCalls
  /\ ncalls' = ncalls + 1
  /\ notifications' = notifications \ {n}
  /\ user_notifications' = {r \in user_notifications : r.notification_id # n}
  /\ call' = Step(p, [Begin("delete_notification", {n}, {}, {}, 0) EXCEPT
                        !.pc = "done",
                        !.status = IF n \in notifications THEN "ok" ELSE "NotFound"])
  /\ UNCHANGED <<users, next_id, clock>>

\* ------------------------------------------------- UserService.delete_user
\* get_user_by_id, db.delete(db_user), commit; ON DELETE CASCADE removes the
\* user_notifications rows of u
DeleteUser(p, u) ==
  /\ Free(p) /\ ncalls < MaxCalls
  /\ ncalls' = ncalls + 1
  /\ users' = users \ {u}
  /\ user_notifications' = {r \in user_notifications : r.user_id # u}
  /\ call' = Step(p, [Begin("delete_user", {}, {}, {}, u) EXCEPT
                        !.pc = "done",
                        !.status = IF u \in users THEN "ok" ELSE "NotFound"])
  /\ UNCHANGED <<notifications, next_id, clock>>

\* ------------------------------------------------- request bodies (schemas)
\* app/schemas/user_notification.py: ceilings of the assignment requests
MaxUserIds         == 1000
MaxNotificationIds == 100

\* A list of a request body, by its length and the set of its entries: v.len
\* is len(v), v.ids is set(v) (an entry may occur more than once).
ListOf(S) == [len |-> Cardinality(S), ids |-> S]

\* list(set(v)): the entries once each.
SetOf(v) == v.ids

\* Bodies of assign requests: the well-formed ones, and for notification 1
\* an empty list, a list with a repeated entry and a list one entry over
\* the ceiling.
AssignBodies ==
  (NotifIds \X {ListOf(U) : U \in UserIdSets})
    \cup {<<1, ListOf({})>>,
          <<1, [len |-> 2, ids |-> {1}]>>,
          <<1, ListOf(1..(MaxUserIds + 1))>>}

\* Lists of mark-read requests and of assign-by-role requests.
NotifIdLists ==
  {ListOf(N) : N \in NotifIdSets} \cup {ListOf({}), [len |-> 2, ids |-> {2}]}

\* Bodies of bulk-assign requests: the well-formed ones, and one body for
\* each way of failing a validator.
BulkBodies ==
  ({ListOf(N) : N \in NotifIdSets} \X {ListOf(U) : U \in UserIdSets})
    \cup {<<ListOf({1}), [len |-> 2, ids |-> {1}]>>,
          <<[len |-> 2, ids |-> {2}], ListOf({1})>>,
          <<ListOf({}), ListOf({1})>>,
          <<ListOf({1}), ListOf({})>>,
          <<ListOf(1..(MaxNotificationIds + 1)), ListOf({1})>>,
          <<ListOf({1}), ListOf(1..(MaxUserIds + 1))>>}

RoleLists ==
  {ListOf(R) : R \in RoleSets}
    \cup {ListOf({}), [len |-> 2, ids |-> {"teacher"}], ListOf({"teacher", "principal"})}

\* A user_ids validator without the ceiling.
validate_user_ids_NoCeiling(v) == v.len # 0

\* UserNotificationCreate.validate_user_ids and
\* UserNotificationBulkCreate.validate_user_ids: TRUE when no ValueError
validate_user_ids(v) == v.len # 0 /\ ~(v.len > MaxUserIds)

\* UserNotificationBulkCreate.validate_notification_ids
validate_notification_ids(v) == v.len # 0 /\ ~(v.len > MaxNotificationIds)

\* UserNotificationMarkRead.validate_notification_ids
validate_mark_read_ids(v) == v.len # 0

\* UserNotificationAssignByRole.validate_roles
validate_roles(v) == v.len # 0 /\ \A role \in v.ids : role \in UserRole

\* The body fails validation: the request is answered 422 and the endpoint
\* function is not called.
Reject(p, op, N, U, R, u) ==
  /\ Free(p) /\ ncalls < MaxCalls
  /\ ncalls' = ncalls + 1
  /\ call' = Local(p, [Begin(op, N, U, R, u) EXCEPT
                         !.pc = "done", !.status = "ValidationError"])
  /\ UNCHANGED <<users, notifications, user_notifications, next_id, clock>>

\* POST /user-notifications/assign
PostAssign(p) ==
  /\ Free(p)
  /\ \E b \in AssignBodies :
       IF validate_user_ids(b[2])
       THEN StartAssign(p, b[1], SetOf(b[2]))
       ELSE Reject(p, "assign", {b[1]}, SetOf(b[2]), {}, 0)

\* POST /user-notifications/bulk-assign
PostBulkAssign(p) ==
  /\ Free(p)
  /\ \E b \in BulkBodies :
       IF validate_notification_ids(b[1]) /\ validate_user_ids(b[2])
       THEN StartBulk(p, SetOf(b[1]), SetOf(b[2]))
       ELSE Reject(p, "bulk", SetOf(b[1]), SetOf(b[2]), {}, 0)

\* POST /user-notifications/assign-by-role
PostAssignByRole(p) ==
  /\ Free(p)
  /\ \E n \in NotifIds, roles \in RoleLists :
       IF validate_roles(roles)
       THEN StartRole(p, n, SetOf(roles))
       ELSE Reject(p, "role", {n}, {}, SetOf(roles), 0)

\* POST /user-notifications/mark-read
PostMarkRead(p) ==
  /\ Free(p)
  /\ \E u \in UserIds, notification_ids \in NotifIdLists :
       IF validate_mark_read_ids(notification_ids)
       THEN StartMarkRead(p, u, SetOf(notification_ids))
       ELSE u \in users /\ Reject(p, "mark_read", SetOf(notification_ids), {}, {}, u)

Next ==
  \E p \in Procs :
    \/ Return(p)
    \/ PostAssign(p)
    \/ AssignCheckNotification(p)
    \/ AssignCheckUsers(p)
    \/ AssignCheckExisting(p)
    \/ AssignCommit(p)
    \/ AssignRefresh(p)
    \/ PostBulkAssign(p)
    \/ BulkCheckNotifications(p)
    \/ BulkCheckUsers(p)
    \/ BulkCheckExisting(p)
    \/ BulkCommit(p)
    \/ BulkRefresh(p)
    \/ PostAssignByRole(p)
    \/ RoleCheckNotification(p)
    \/ RoleResolveUsers(p)
    \/ RoleCheckExisting(p)
    \/ RoleCommit(p)
    \/ RoleRefresh(p)
    \/ PostMarkRead(p)
    \/ MarkReadSelectUnread(p)
    \/ MarkReadCountTotal(p)
    \/ MarkReadUpdate(p)
    \/ \E u \in UserIds : MarkAllAsRead(p, u)
    \/ \E u \in UserIds : StartStats(p, u)
    \/ StatsCountTotal(p)
    \/ StatsCountUnread(p)
    \/ StatsUnreadByType(p)
    \/ StatsLatestUnread(p)
    \/ \E u \in UserIds, n \in NotifIds : DeleteUserNotification(p, u, n)
    \/ \E u \in UserIds : DeleteAllUserNotifications(p, u)
    \/ \E n \in NotifIds : DeleteNotification(p, n)
    \/ \E u \in UserIds : DeleteUser(p, u)

Spec == Init /\ [][Next]_vars

\* ================================================================ claims
AssignOps == {"assign", "bulk", "role"}

Done(p) == call[p].pc = "done"

\* Task p takes a step of its call.
Moves(p) == call'[p].pc # call[p].pc

\* The candidate pairs of an assignment call (for assign-by-role once the
\* roles are resolved).
Candidate(c) == c.user_ids \X c.notification_ids

Count(u, n) == Cardinality(RowsOf(user_notifications, u, n))

\* ---- C1: in every reachable state there is at most one user_notifications
\* row for each (user_id, notification_id) pair.
C1_UniquePair == \A u \in UserIds, n \in NotifIds : Count(u, n) <= 1

\* Two calls raced for the same new pair: the later insert was refused and
\* the pair has its one row.
C1_Witness ==
  \E p \in Procs :
    /\ Done(p) /\ call[p].op \in AssignOps /\ call[p].status = "DuplicateEntry"
    /\ \E pr \in call[p].pending : Count(pr[1], pr[2]) = 1

\* ---- C2 (as claimed): no assignment call ends with the store's
\* duplicate-pair rejection; the rejected call succeeds and counts the pair
\* as skipped.
C2_NoRawDuplicateError ==
  \A p \in Procs :
    Done(p) /\ call[p].op \in AssignOps => call[p].status # "DuplicateEntry"

\* The pairs a finished call reports as inserted (its returned assignments)
\* and as skipped (counted in its returned skipped count).
Inserted(c) == IF c.status = "ok" THEN c.pending ELSE {}

Skipped(c) == IF c.status = "ok" THEN c.existing_pairs ELSE {}

\* ---- C3 (as claimed): every assignment call that finished, was not
\* rejected as malformed or for a missing reference and did not lose a parent
\* or a row to a
\* deletion reports each pair of its candidate set as inserted or as
\* skipped, and the store holds at most one row for the pair.
C3_EveryAttemptReported ==
  \A p \in Procs :
    (/\ Done(p) /\ call[p].op \in AssignOps
     /\ call[p].status \notin {"ValidationError", "NotFound",
                               "ForeignKeyError", "RefreshError"})
    => \A pr \in Candidate(call[p]) :
         /\ pr \in Inserted(call[p]) \cup Skipped(call[p])
         /\ Count(pr[1], pr[2]) <= 1

\* ---- C4: the step in which an assignment call commits adds to the table
\* either a row for every pair of its delta or no row at all, and no other
\* step of the call adds or removes a row.
C4_AtomicDelta ==
  [][\A p \in Procs :
       call[p].op \in AssignOps /\ Moves(p) =>
         LET added == user_notifications' \ user_notifications IN
         /\ user_notifications \subseteq user_notifications'
         /\ \/ added = {}
            \/ /\ call[p].pc = "commit"
               /\ Pairs(added) = call[p].pending
               /\ Cardinality(added) = Cardinality(call[p].pending)]_vars

\* A call whose delta held two pairs was refused at commit for one of them,
\* and the other pair has no row.
C4_Witness ==
  \E p \in Procs :
    /\ Done(p) /\ call[p].op \in AssignOps
    /\ call[p].status \in {"DuplicateEntry", "ForeignKeyError"}
    /\ Cardinality(call[p].pending) >= 2
    /\ \E pr \in call[p].pending : Count(pr[1], pr[2]) = 0

\* ---- C5: the step in which an assignment call fails with NotFound leaves
\* the table as it was, and the call has neither queued nor inserted a row
\* before it.
C5_NotFoundWritesNothing ==
  [][\A p \in Procs :
       (/\ call[p].op \in AssignOps /\ Moves(p)
        /\ call'[p].status = "NotFound")
       => /\ user_notifications' = user_notifications
          /\ call'[p].pending = {} /\ call'[p].assignments = {}]_vars

\* assign-to-users was refused for a missing user while another user of the
\* request exists and has no row for the notification.
C5_Witness ==
  \E p \in Procs :
    /\ Done(p) /\ call[p].op = "assign" /\ call[p].status = "NotFound"
    /\ call[p].detail_user_ids # {}
    /\ \E u \in call[p].user_ids \cap users, n \in call[p].notification_ids :
         n \in notifications /\ Count(u, n) = 0

\* ---- C6: when an assignment call that no other call interleaved has
\* committed, the rows it inserted are exactly candidate minus the pairs the
\* table held before, and its skipped count is the number of candidate pairs
\* the table held before.
C6_ExactDelta ==
  \A p \in Procs :
    LET c == call[p]
        inserted == {r \in user_notifications : r.id \in c.assignments}
        before == user_notifications \ inserted
    IN
    (c.op \in AssignOps /\ c.pc = "refresh" /\ c.solo)
    => /\ Pairs(inserted) = Candidate(c) \ Pairs(before)
       /\ Cardinality(inserted) = Cardinality(Candidate(c) \ Pairs(before))
       /\ c.skipped_count = Cardinality(Candidate(c) \cap Pairs(before))

\* bulk-assign of notifications {1,2} to users {1,2} with one of the four
\* pairs present: 3 inserted, 1 skipped.
C6_Witness ==
  \E p \in Procs :
    /\ call[p].op = "bulk" /\ call[p].pc = "refresh" /\ call[p].solo
    /\ call[p].notification_ids = {1, 2} /\ call[p].user_ids = {1, 2}
    /\ Cardinality(call[p].assignments) = 3 /\ call[p].skipped_count = 1

\* ---- C7: when an assign-by-role call for notification n and roles R that
\* no other call interleaved has committed, every user whose role is in R
\* has exactly one row (u, n) and no inserted row belongs to another user.
C7_RoleBroadcast ==
  \A p \in Procs :
    LET c == call[p]
        inserted == {r \in user_notifications : r.id \in c.assignments}
    IN
    (c.op = "role" /\ c.pc = "refresh" /\ c.solo)
    => /\ \A u \in users, n \in c.notification_ids :
            RoleOf[u] \in c.roles => Count(u, n) = 1
       /\ \A r \in inserted :
            RoleOf[r.user_id] \in c.roles /\ r.notification_id \in c.notification_ids

\* roles = [teacher]: the teacher got a row, the student none.
C7_Witness ==
  \E p \in Procs :
    /\ call[p].op = "role" /\ call[p].pc = "refresh" /\ call[p].solo
    /\ call[p].roles = {"teacher"} /\ call[p].assignments # {}
    /\ \E u \in users, n \in call[p].notification_ids :
         RoleOf[u] = "student" /\ Count(u, n) = 0

\* ---- C8 (as claimed): an assign-to-users call that no other call
\* interleaved and that failed with NotFound names the missing notification
\* id when the notification is absent, and every missing user id otherwise.
C8_NotFoundNamesEveryId ==
  \A p \in Procs :
    LET c == call[p] IN
    (Done(p) /\ c.op = "assign" /\ c.status = "NotFound" /\ c.solo)
    => /\ c.assignments = {}
       /\ IF c.notification_ids \subseteq notifications
          THEN c.detail_user_ids = c.user_ids \ users
          ELSE c.detail_notification_ids = c.notification_ids \ notifications

\* ---- C9 (as claimed): a bulk-assign call that no other call interleaved
\* and that failed with NotFound reports the missing notification ids and
\* the missing user ids, both.
C9_BothSetsReported ==
  \A p \in Procs :
    LET c == call[p] IN
    (Done(p) /\ c.op = "bulk" /\ c.status = "NotFound" /\ c.solo)
    => /\ c.detail_notification_ids = c.notification_ids \ notifications
       /\ c.detail_user_ids = c.user_ids \ users

\* ---- C10: assign-by-role fails with NotFound exactly when its
\* notification is absent at the notification check or no user holds a
\* requested role at the users query, and then writes nothing; a call that
\* finds every matching user assigned queues nothing, skips them all and
\* ends with success.
C10_RoleNotFound ==
  [][\A p \in Procs :
       LET c == call[p]
           d == call'[p]
       IN
       (c.op = "role" /\ Moves(p)) =>
         /\ c.pc = "check_notification" =>
              (d.status = "NotFound" <=> ~(c.notification_ids \subseteq notifications))
         /\ c.pc = "check_users" =>
              (d.status = "NotFound" <=> {u \in users : RoleOf[u] \in c.roles} = {})
         /\ d.status = "NotFound" =>
              /\ user_notifications' = user_notifications
              /\ d.pending = {} /\ d.assignments = {}
         /\ c.pc \in {"check_existing", "commit", "refresh"} => d.status # "NotFound"
         /\ (c.pc = "check_existing"
             /\ c.user_ids \X c.notification_ids \subseteq Pairs(user_notifications))
            => d.pending = {} /\ d.skipped_count = Cardinality(c.user_ids)
         /\ (c.pc = "commit" /\ c.pending = {})
            => d.pc = "refresh" /\ user_notifications' = user_notifications
         /\ (c.pc = "refresh" /\ c.assignments = {}) => d.status = "ok"]_vars

\* assign-by-role ended with success, zero inserted and every matching user
\* skipped.
C10_Witness ==
  \E p \in Procs :
    /\ Done(p) /\ call[p].op = "role" /\ call[p].status = "ok"
    /\ call[p].assignments = {} /\ call[p].skipped_count > 0
    /\ call[p].skipped_count = Cardinality(call[p].user_ids)

\* ------------------------------------------------------------ read state
MarkOps == {"mark_read", "mark_all"}

\* Number of rows of user u that are read.
ReadRows(rows, u) == Cardinality({r \in rows : r.user_id = u /\ r.is_read})

\* ---- C11: every row is created unread; a row that is read stays read for
\* as long as it exists (no step takes is_read from true to false); and no
\* step of mark-read or mark-all-read lowers a user's number of read rows.
C11_ReadIsMonotone ==
  [][ /\ \A s \in user_notifications' :
           (\A r \in user_notifications : r.id # s.id) => ~s.is_read
      /\ \A r \in user_notifications : \A s \in user_notifications' :
           (r.id = s.id /\ r.is_read) => s.is_read
      /\ \A p \in Procs : \A u \in UserIds :
           (Moves(p) /\ call'[p].op \in MarkOps)
             => ReadRows(user_notifications', u) >= ReadRows(user_notifications, u)
    ]_vars

\* A mark call has finished for a user who holds a row read before the call
\* began, and that row is still read.
C11_Witness ==
  \E p \in Procs :
    /\ Done(p) /\ call[p].op \in MarkOps
    /\ \E r \in user_notifications :
         /\ r.user_id = call[p].user_id
         /\ r.is_read /\ r.read_at # NoTime /\ r.read_at < call[p].now

\* ---- C12: read_at is set exactly once: once a row's read_at is non-null no
\* later step (of any mark-read or mark-all-read call, however interleaved)
\* changes its value.
C12_ReadAtSetOnce ==
  [][ \A r \in user_notifications : \A s \in user_notifications' :
        (r.id = s.id /\ r.read_at # NoTime) => s.read_at = r.read_at ]_vars

\* ---- C13: in every reachable state each row has read_at null exactly when
\* is_read is false.
C13_ReadAtIffRead ==
  \A r \in user_notifications : (r.read_at = NoTime) <=> ~r.is_read

\* A mark-read call has just stamped a row while another row is unread.
C13_Witness ==
  \E p \in Procs :
    /\ Done(p) /\ call[p].op = "mark_read"
    /\ \E r \in user_notifications : r.is_read /\ r.read_at = call[p].now
    /\ \E r \in user_notifications : ~r.is_read /\ r.read_at = NoTime

\* ---- C14: a mark-all-read call of user u turns every unread row of u into
\* a read row, all with one common read_at, and returns the number of rows
\* it turned; every other row is left as it was.  Hence a second call that
\* follows with no assignment in between (u has no unread row) returns 0 and
\* leaves every read_at as the first call set it.
C14_MarkAllTransitions ==
  [][ \A p \in Procs :
        (Moves(p) /\ call'[p].op = "mark_all") =>
          LET u == call'[p].user_id
              unread == UnreadOfUser(user_notifications, u)
              turned == {s \in user_notifications' : \E r \in unread : r.id = s.id}
          IN
          /\ {s.id : s \in user_notifications'} = {r.id : r \in user_notifications}
          /\ \A s \in RowsOfUser(user_notifications', u) : s.is_read
          /\ \A s \in turned : \A t \in turned : s.read_at = t.read_at /\ s.read_at # NoTime
          /\ call'[p].count = Cardinality(unread)
          /\ user_notifications \ unread \subseteq user_notifications'
          /\ unread = {} => (call'[p].count = 0 /\ user_notifications' = user_notifications)
    ]_vars

\* The second of two mark-all-read calls in sequence has returned 0: the rows
\* of the user are all read and one carries the time of the call before.
C14_Witness ==
  \E p \in Procs :
    /\ Done(p) /\ call[p].op = "mark_all" /\ call[p].count = 0 /\ ncalls = 2
    /\ \A r \in RowsOfUser(user_notifications, call[p].user_id) : r.is_read
    /\ \E r \in RowsOfUser(user_notifications, call[p].user_id) :
         r.read_at = call[p].now - 1 /\ r.read_at > 1

\* The rows a mark-read call c addresses: the caller's rows for the
\* notification ids of the request.
Addressed(rows, c) ==
  {r \in rows : r.user_id = c.user_id /\ r.notification_id \in c.notification_ids}

\* ---- C15: when a mark-read call of user u with ids S (not empty, which is
\* a validation failure) has run with no other
\* call interleaved, every row of u in S is read; the rows that were unread
\* carry the call's timestamp and marked_read_count is their number; the rows
\* that were read before keep their earlier timestamp and already_read_count
\* is their number; ids of S without a row of u raise no error and are
\* counted in neither.
C15_MarkReadCounts ==
  \A p \in Procs :
    LET c == call[p]
        mine == Addressed(user_notifications, c)
        turned == {r \in mine : r.id \in c.unread_ids}
    IN
    (Done(p) /\ c.op = "mark_read" /\ c.solo /\ c.notification_ids # {}) =>
      /\ c.status = "ok"
      /\ \A r \in mine : r.is_read
      /\ \A r \in turned : r.read_at = c.now
      /\ \A r \in mine \ turned : r.read_at # NoTime /\ r.read_at < c.now
      /\ c.count = Cardinality(turned)
      /\ c.skipped_count = Cardinality(mine \ turned)
      /\ c.count + c.skipped_count = Cardinality(mine)

\* An un-interleaved mark-read call has turned a row, and its request named
\* a notification the user has no row for.
C15_Witness ==
  \E p \in Procs :
    /\ Done(p) /\ call[p].op = "mark_read" /\ call[p].solo
    /\ call[p].count >= 1
    /\ \E n \in call[p].notification_ids :
         RowsOf(user_notifications, call[p].user_id, n) = {}

\* ---- C16: repeating a mark-read call (same user, same ids, no assignment
\* or removal in between) is a no-op: a call that runs un-interleaved while
\* every addressed row is already read selects nothing, reports 0 newly
\* read and every addressed row as already read, ends without error and
\* leaves is_read and read_at of every row unchanged.
C16_RepeatIsNoOp ==
  [][ \A p \in Procs :
        LET c == call[p]
            mine == Addressed(user_notifications, c)
        IN
        (Moves(p) /\ c.op = "mark_read" /\ c.solo /\ \A r \in mine : r.is_read) =>
          /\ user_notifications' = user_notifications
          /\ c.pc = "read_unread" => call'[p].unread_ids = {}
          /\ c.pc = "read_total" =>
               /\ call'[p].pc = "done" /\ call'[p].status = "ok"
               /\ call'[p].count = 0
               /\ call'[p].skipped_count = Cardinality(mine)
          /\ c.pc # "update"
    ]_vars

\* The second of two mark-read calls in sequence has reported 0 newly read
\* and a row as already read that carries the time of the call before.
C16_Witness ==
  \E p \in Procs :
    /\ Done(p) /\ call[p].op = "mark_read" /\ call[p].solo /\ ncalls = 2
    /\ call[p].count = 0 /\ call[p].skipped_count >= 1
    /\ \E r \in Addressed(user_notifications, call[p]) :
         r.read_at = call[p].now - 1 /\ r.read_at > 1

\* ----------------------------------------------------------------- stats
\* Sum of the counts of a type -> count mapping.
RECURSIVE SumCounts(_)
SumCounts(S) ==
  IF S = {} THEN 0
  ELSE LET x == CHOOSE y \in S : TRUE IN x[2] + SumCounts(S \ {x})

\* ---- C17: in every per-user stats result read_count + unread_count =
\* total_notifications, whatever assignment, mark-read or removal calls ran
\* between the reads of the stats call.
C17_ReadPlusUnreadIsTotal ==
  \A p \in Procs :
    (Done(p) /\ call[p].op = "stats") =>
      call[p].read_count + call[p].unread_count = call[p].total_count

\* A stats call has returned after a write of another call changed the
\* user's rows between its reads.
C17_Witness ==
  \E p \in Procs :
    /\ Done(p) /\ call[p].op = "stats" /\ ~call[p].solo
    /\ call[p].total_count # Cardinality(RowsOfUser(user_notifications, call[p].user_id))

\* ---- C18: a per-user stats call that ran with no write interleaved reports
\* total_notifications = number of rows of the user, unread_count = number
\* of them with is_read false and read_count = number of them with is_read
\* true.
C18_StatsCounts ==
  \A p \in Procs :
    LET c == call[p] IN
    (Done(p) /\ c.op = "stats" /\ c.solo) =>
      /\ c.total_count = Cardinality(RowsOfUser(user_notifications, c.user_id))
      /\ c.unread_count = Cardinality(UnreadOfUser(user_notifications, c.user_id))
      /\ c.read_count = ReadRows(user_notifications, c.user_id)

\* Stats of a user with two rows, one of them read: 2 / 1 / 1.
C18_Witness ==
  \E p \in Procs :
    /\ Done(p) /\ call[p].op = "stats" /\ call[p].solo
    /\ call[p].total_count = 2 /\ call[p].unread_count = 1 /\ call[p].read_count = 1

C20_CascadeDelete ==
  [][ \A p \in Procs :
        /\ (Moves(p) /\ call'[p].op = "delete_notification") =>
             /\ \A s \in user_notifications' :
                  s.notification_id \notin call'[p].notification_ids
             /\ \A n \in call'[p].notification_ids : n \notin notifications'
             /\ user_notifications' \subseteq user_notifications
             /\ \A r \in user_notifications :
                  r.notification_id \notin call'[p].notification_ids
                    => r \in user_notifications'
        /\ (Moves(p) /\ call'[p].op = "delete_user") =>
             /\ \A s \in user_notifications' : s.user_id # call'[p].user_id
             /\ call'[p].user_id \notin users'
             /\ user_notifications' \subseteq user_notifications
             /\ \A r \in user_notifications :
                  r.user_id # call'[p].user_id => r \in user_notifications'
    ]_vars

\* A notification that had a row has been deleted; its row is gone and a
\* row of another notification is still there.
C20_Witness ==
  \E p \in Procs :
    /\ Done(p) /\ call[p].op = "delete_notification" /\ call[p].status = "ok"
    /\ ncalls = 1
    /\ user_notifications # {}
    /\ Cardinality(user_notifications) < next_id - 1

\* ------------------------------------------------------------ validation
\* The request of call c is malformed: a role outside the role enum, an
\* empty id or role list, or an assignment request over a ceiling.
Malformed(c) ==
  \/ c.op = "assign" /\ (c.user_ids = {} \/ Cardinality(c.user_ids) > 1000)
  \/ c.op = "bulk" /\ (\/ c.user_ids = {} \/ Cardinality(c.user_ids) > 1000
                        \/ c.notification_ids = {}
                        \/ Cardinality(c.notification_ids) > 100)
  \/ c.op = "role" /\ (c.roles = {} \/ ~(c.roles \subseteq UserRole))
  \/ c.op = "mark_read" /\ c.notification_ids = {}

\* ---- C21: a malformed assignment or mark-read request is rejected as a
\* validation failure as a whole: the step that receives it ends the call
\* with the validation failure, no step of a handler runs for it, and the
\* store is unchanged.
C21_MalformedRejected ==
  [][ \A p \in Procs :
        (call[p].pc = "idle" /\ Moves(p) /\ Malformed(call'[p])) =>
          /\ call'[p].pc = "done" /\ call'[p].status = "ValidationError"
          /\ UNCHANGED <<users, notifications, user_notifications, next_id, clock>>
    ]_vars

\* A bulk-assign request over the notification ceiling has been rejected
\* while the table holds rows.
C21_Witness ==
  \E p \in Procs :
    /\ Done(p) /\ call[p].op = "bulk" /\ call[p].status = "ValidationError"
    /\ Cardinality(call[p].notification_ids) > MaxNotificationIds
    /\ user_notifications # {}

\* ------------------------------------------------------------ concurrency
\* ---- C22: the application does not serialize overlapping assignment
\* calls: while one assignment call holds a pair in its uncommitted delta,
\* the existing-rows read of another call does not see it, so a pair of
\* both candidate sets that has no committed row enters the second delta as
\* well; the state with the same pair in two deltas is reachable.
C22_ReadIgnoresPending ==
  [][ \A p \in Procs : \A q \in Procs \ {p} :
        ( /\ Moves(p) /\ call[p].op \in AssignOps /\ call[p].pc = "check_existing"
          /\ call[q].op \in AssignOps /\ call[q].pc = "commit" ) =>
          \A pr \in Candidate(call[p]) \cap call[q].pending :
            pr \notin Pairs(user_notifications) => pr \in call'[p].pending
    ]_vars

\* Two assignment calls have both read the store, neither has committed,
\* and both hold the same pair in their delta.
C22_Witness ==
  \E p \in Procs : \E q \in Procs \ {p} :
    /\ call[p].op \in AssignOps /\ call[p].pc = "commit"
    /\ call[q].op \in AssignOps /\ call[q].pc = "commit"
    /\ call[p].pending \cap call[q].pending # {}

\* ---- C23: assignment is idempotent under sequential repetition: when an
\* assignment call that no other call interleaved finishes and every pair
\* of its candidate set already had a row when it started (the state a
\* successful first call leaves), it returns success, inserted no row,
\* reports every candidate pair as skipped, and the table is as it was.
C23_RepeatInsertsNothing ==
  \A p \in Procs :
    LET c == call[p]
        inserted == {r \in user_notifications : r.id \in c.assignments}
        before == user_notifications \ inserted
    IN
    ( /\ Done(p) /\ c.op \in AssignOps /\ c.solo /\ c.status # "ValidationError"
      /\ Candidate(c) # {} /\ Candidate(c) \subseteq Pairs(before) )
    => /\ c.status = "ok"
       /\ c.assignments = {} /\ c.pending = {}
       /\ c.skipped_count = Cardinality(Candidate(c))
       /\ user_notifications = before

\* The second of two equal bulk-assign calls has finished: the table holds
\* exactly the pairs of the request, all inserted by the first call, and
\* the second reports all of them skipped.
C23_Witness ==
  \E p \in Procs :
    /\ Done(p) /\ call[p].op = "bulk" /\ call[p].solo /\ call[p].status = "ok"
    /\ ncalls = 2
    /\ Cardinality(Candidate(call[p])) >= 2
    /\ Pairs(user_notifications) = Candidate(call[p])
    /\ \A r \in user_notifications : ~r.is_read
    /\ call[p].assignments = {}
    /\ call[p].skipped_count = Cardinality(Candidate(call[p]))

\* ---------------------------------------------------------------- frames
\* ---- C24: the removal of (u, n) deletes exactly the row of that pair and
\* answers not-found when there is none; remove-all for u deletes exactly
\* the rows of u and returns their number; every other row is in the table
\* afterwards exactly as before (same id, is_read, read_at).
C24_RemovalFrame ==
  [][ \A p \in Procs :
        /\ (Moves(p) /\ call'[p].op = "remove") =>
             LET u == call'[p].user_id
                 gone == {r \in user_notifications :
                            r.user_id = u /\ r.notification_id \in call'[p].notification_ids}
             IN
             /\ user_notifications' = user_notifications \ gone
             /\ Cardinality(gone) <= 1
             /\ call'[p].status = (IF gone = {} THEN "NotFound" ELSE "ok")
        /\ (Moves(p) /\ call'[p].op = "remove_all") =>
             LET gone == RowsOfUser(user_notifications, call'[p].user_id) IN
             /\ user_notifications' = user_notifications \ gone
             /\ call'[p].count = Cardinality(gone)
             /\ call'[p].status = "ok"
    ]_vars

\* A removal of one pair has succeeded and another row of the table is
\* still there.
C24_Witness ==
  \E p \in Procs :
    /\ Done(p) /\ call[p].op = "remove" /\ call[p].status = "ok" /\ ncalls = 1
    /\ user_notifications # {}
    /\ Cardinality(user_notifications) < next_id - 1

\* ---- C25: read-state changes are scoped to the caller: a step of a
\* mark-read call of user u with ids S changes only rows with user_id = u
\* and notification_id in S, a mark-all-read call of u only rows of u; it
\* adds and removes no row, and every other row keeps is_read and read_at,
\* whatever other calls are in flight.
C25_MarkScopedToCaller ==
  [][ \A p \in Procs :
        (Moves(p) /\ call'[p].op \in MarkOps) =>
          /\ {s.id : s \in user_notifications'} = {r.id : r \in user_notifications}
          /\ \A r \in user_notifications : \A s \in user_notifications' :
               (r.id = s.id /\ r # s) =>
                 /\ r.user_id = call'[p].user_id
                 /\ call'[p].op = "mark_read"
                      => r.notification_id \in call'[p].notification_ids
                 /\ s.user_id = r.user_id /\ s.notification_id = r.notification_id
    ]_vars

\* A mark-read call has marked a row of its caller while another user
\* holds an unread row for the same notification.
C25_Witness ==
  \E p \in Procs :
    /\ Done(p) /\ call[p].op = "mark_read" /\ call[p].count >= 1
    /\ \E r \in user_notifications :
         /\ r.user_id # call[p].user_id
         /\ r.notification_id \in call[p].notification_ids
         /\ ~r.is_read
    /\ \E r \in user_notifications :
         r.user_id = call[p].user_id /\ r.read_at = call[p].now

\* ---- C26 (as claimed): each unread-to-read transition is reported as
\* newly read by exactly one call: the marked-read count a mark call
\* returns is the number of rows its writing step turned from unread to
\* read, so a row another call has already made read is not counted again
\* (the rows the call selected all still exist).
C26_CountIsTransitions ==
  [][ \A p \in Procs :
        ( /\ Moves(p) /\ call'[p].op \in MarkOps /\ call'[p].pc = "done"
          /\ call'[p].status = "ok"
          /\ call'[p].unread_ids \subseteq {r.id : r \in user_notifications} ) =>
          call'[p].count =
            Cardinality({r \in user_notifications :
                           /\ ~r.is_read
                           /\ \E s \in user_notifications' : s.id = r.id /\ s.is_read})
    ]_vars

C28_AssignKeepsRows ==
  [][ \A p \in Procs :
        (Moves(p) /\ call'[p].op \in AssignOps) =>
          user_notifications \subseteq user_notifications'
    ]_vars

\* An assignment call whose candidate set holds a pair the user has already
\* read has succeeded, and the row is still read.
C28_Witness ==
  \E p \in Procs :
    /\ Done(p) /\ call[p].op \in AssignOps /\ call[p].status = "ok"
    /\ \E r \in user_notifications :
         Pair(r) \in Candidate(call[p]) /\ r.is_read /\ r.read_at # NoTime

\* -------------------------------------------------- referential integrity
\* ---- C29: in every reachable state every user_notifications row
\* references a user and a notification that exist, also when a user or a
\* notification is deleted between the existence check of an assignment
\* call and its commit.
C29_ReferentialIntegrity ==
  \A r \in user_notifications :
    r.user_id \in users /\ r.notification_id \in notifications

\* An assignment call passed its existence checks, a parent row was deleted
\* before its commit, and the commit was refused.
C29_Witness ==
  \E p \in Procs :
    /\ Done(p) /\ call[p].op \in AssignOps /\ call[p].status = "ForeignKeyError"
    /\ \E pr \in call[p].pending : pr[1] \notin users \/ pr[2] \notin notifications

\* ---- C30 (as claimed): when the commit of an assignment call succeeds,
\* every pair of its candidate set has a row in the table at that moment,
\* the pairs it reports as skipped included, also when a removal for such a
\* pair committed after the call's existing-rows read.
C30_CandidatePresentAtCommit ==
  [][ \A p \in Procs :
        ( /\ Moves(p) /\ call[p].op \in AssignOps
          /\ call[p].pc = "commit" /\ call'[p].pc = "refresh" ) =>
          Candidate(call[p]) \subseteq Pairs(user_notifications')
    ]_vars
====
